---- MODULE Spec2Model ----
(***************************************************************************)
(* Metric resolution and chart building of Cafe_sql: fuzzy column          *)
(* resolution, KPI aggregation (KPI_analyst.py) and the chart builder      *)
(* (BA.py), as a state machine over one caller-owned dataset.              *)
(*                                                                         *)
(* Python strings whose characters the code inspects are sequences of      *)
(* one-character strings.  Python values are records tagged by k.          *)
(***************************************************************************)
EXTENDS Integers, Sequences, FiniteSets, TLC

VARIABLES
    df,     \* the caller's dataset object (raw_dfs[filename])
    df0,    \* the dataset as it was loaded (history of df)
    pc,     \* "idle": the host may call; "returned": a call has ended
    call,   \* the call made last: its function and its arguments
    ret,    \* how that call ended: [raised, value]
    session \* st.session_state of the chat page

vars == <<df, df0, pc, call, ret, session>>

----------------------------------------------------------------------------
(* Python values *)

None == [k |-> "None"]
NaN == [k |-> "nan"]
Str(s) == [k |-> "str", s |-> s]
Num(n, d) == [k |-> "num", n |-> n, d |-> d]
PyInt(n) == Num(n, 1)
List(xs) == [k |-> "list", xs |-> xs]
Dict(items) == [k |-> "dict", items |-> items]

IsStr(v) == v.k = "str"
IsNum(v) == v.k = "num"
IsDict(v) == v.k = "dict"

----------------------------------------------------------------------------
(* str.lower(), str.upper(), str.replace(" ", ""), `in` on strings *)

UpperLetters ==
    <<"A","B","C","D","E","F","G","H","I","J","K","L","M",
      "N","O","P","Q","R","S","T","U","V","W","X","Y","Z">>
LowerLetters ==
    <<"a","b","c","d","e","f","g","h","i","j","k","l","m",
      "n","o","p","q","r","s","t","u","v","w","x","y","z">>

ToLower == [c \in {UpperLetters[i] : i \in DOMAIN UpperLetters} |->
              LowerLetters[CHOOSE i \in DOMAIN UpperLetters : UpperLetters[i] = c]]
ToUpper == [c \in {LowerLetters[i] : i \in DOMAIN LowerLetters} |->
              UpperLetters[CHOOSE i \in DOMAIN LowerLetters : LowerLetters[i] = c]]

LowerChar(c) == IF c \in DOMAIN ToLower THEN ToLower[c] ELSE c
UpperChar(c) == IF c \in DOMAIN ToUpper THEN ToUpper[c] ELSE c

lower(s) == [i \in 1..Len(s) |-> LowerChar(s[i])]
upper(s) == [i \in 1..Len(s) |-> UpperChar(s[i])]

IsSpace(c) == c = " "
NotSpace(c) == ~IsSpace(c)
replace_spaces(s) == SelectSeq(s, NotSpace)

\* needle in hay
Contains(hay, needle) ==
    \E i \in 0..(Len(hay) - Len(needle)) :
        SubSeq(hay, i + 1, i + Len(needle)) = needle

\* x in xs, for a sequence xs
InSeq(x, xs) == \E i \in DOMAIN xs : xs[i] = x

----------------------------------------------------------------------------
(* fuzzy_match, KPI_analyst.py:46-51 *)

normalize(s) == replace_spaces(lower(s))

\* fuzzy_loop with a slip: a candidate equal to the reference after
\* normalising is preferred to an earlier candidate that only contains it
RECURSIVE fuzzy_loop_best(_, _, _)
fuzzy_loop_best(col, candidates, i) ==
    IF \E j \in DOMAIN candidates : normalize(candidates[j]) = col
    THEN Str(candidates[CHOOSE j \in DOMAIN candidates : normalize(candidates[j]) = col])
    ELSE IF i > Len(candidates) THEN None
    ELSE IF Contains(normalize(candidates[i]), col) THEN Str(candidates[i])
    ELSE fuzzy_loop_best(col, candidates, i + 1)

RECURSIVE fuzzy_loop(_, _, _)
fuzzy_loop(col, candidates, i) ==
    IF i > Len(candidates) THEN None
    ELSE IF Contains(normalize(candidates[i]), col) THEN Str(candidates[i])
    ELSE fuzzy_loop(col, candidates, i + 1)

fuzzy_match(col, candidates) == fuzzy_loop(normalize(col), candidates, 1)

\* chatbot2.py:33-34, next((col for col in df.columns if ... in ...), None):
\* the generator keeps the columns that match, next takes the first one
next_match(x_col, columns) ==
    LET matches(col) == Contains(replace_spaces(lower(col)), replace_spaces(lower(x_col)))
        generator == SelectSeq(columns, matches)
    IN  IF generator = <<>> THEN None ELSE Str(Head(generator))

----------------------------------------------------------------------------
(* Numbers.  Num(n, d) is the number n/d in lowest terms with d > 0;       *)
(* Num(1, 0) and Num(-1, 0) are +inf and -inf; NaN is the missing value.   *)

Abs(n) == IF n < 0 THEN -n ELSE n
Sign(n) == IF n < 0 THEN -1 ELSE IF n > 0 THEN 1 ELSE 0

RECURSIVE Gcd(_, _)
Gcd(a, b) == IF b = 0 THEN a ELSE Gcd(b, a % b)

\* the value n/d, d >= 0, in its canonical form
Frac(n, d) ==
    IF d = 0 THEN (IF n = 0 THEN NaN ELSE Num(Sign(n), 0))
    ELSE LET g == Gcd(Abs(n), d) IN Num(n \div g, d \div g)

IsFinite(v) == IsNum(v) /\ v.d # 0
IsZero(v) == IsNum(v) /\ v.n = 0

Add(a, b) ==
    IF ~IsNum(a) \/ ~IsNum(b) THEN NaN
    ELSE IF a.d = 0 /\ b.d = 0 THEN (IF a.n = b.n THEN a ELSE NaN)
    ELSE Frac(a.n * b.d + b.n * a.d, a.d * b.d)

Mul(a, b) ==
    IF ~IsNum(a) \/ ~IsNum(b) THEN NaN
    ELSE Frac(a.n * b.n, a.d * b.d)

TrueDiv(a, b) ==
    IF ~IsNum(a) \/ ~IsNum(b) THEN NaN
    ELSE IF b.n = 0 THEN Frac(a.n, 0)
    ELSE Frac(a.n * b.d * Sign(b.n), a.d * Abs(b.n))

\* round(val, 2): the nearest multiple of 1/100, a tie going to the even one
round2(v) ==
    IF ~IsFinite(v) THEN v
    ELSE LET q == (100 * v.n) \div v.d
             r == (100 * v.n) % v.d
             h == IF 2 * r > v.d \/ (2 * r = v.d /\ q % 2 = 1) THEN q + 1 ELSE q
         IN  Frac(h, 100)

----------------------------------------------------------------------------
(* The dataset: a pandas DataFrame as ordered column names and rows of     *)
(* cells.  A cell is a number, a string or NaN (null).                     *)

DataFrame(columns, rows) == [columns |-> columns, rows |-> rows]

ColIndex(d, name) == CHOOSE i \in DOMAIN d.columns : d.columns[i] = name
HasColumn(d, name) == InSeq(name, d.columns)

\* d[name], the cells of one column in row order
Series(d, name) == [i \in DOMAIN d.rows |-> d.rows[i][ColIndex(d, name)]]

notna(c) == c # NaN
NotNaCells(cells) == SelectSeq(cells, notna)

\* an object column holds strings, a numeric one numbers and NaN
IsObject(cells) == \E i \in DOMAIN cells : IsStr(cells[i])

RECURSIVE SumCells(_, _)
SumCells(cells, i) ==
    IF i > Len(cells) THEN PyInt(0) ELSE Add(cells[i], SumCells(cells, i + 1))

RECURSIVE ConcatCells(_, _)
ConcatCells(cells, i) ==
    IF i > Len(cells) THEN <<>> ELSE cells[i].s \o ConcatCells(cells, i + 1)

Raise(e) == [raised |-> TRUE, exc |-> e]
Ok(v) == [raised |-> FALSE, value |-> v]

TypeError == [exc |-> "TypeError"]
AttributeError == [exc |-> "AttributeError"]
IndexError == [exc |-> "IndexError"]
KeyError(key) == [exc |-> "KeyError", key |-> key]
ValueError(what, arg) == [exc |-> "ValueError", what |-> what, arg |-> arg]

\* Series.sum(): nulls skipped; strings are concatenated
series_sum(cells) ==
    LET present == NotNaCells(cells) IN
    IF present = <<>> THEN Ok(PyInt(0))
    ELSE IF IsObject(present) THEN Ok(Str(ConcatCells(present, 1)))
    ELSE Ok(SumCells(present, 1))

\* Series.count(): the number of non-null cells
series_count(cells) == Ok(PyInt(Len(NotNaCells(cells))))

\* Series.nunique(): the number of distinct non-null cells
series_nunique(cells) ==
    LET present == NotNaCells(cells) IN
    Ok(PyInt(Cardinality({present[i] : i \in DOMAIN present})))

\* Series.mean(): nulls skipped; NaN when nothing is left; strings raise
series_mean(cells) ==
    LET present == NotNaCells(cells) IN
    IF present = <<>> THEN Ok(NaN)
    ELSE IF IsObject(present) THEN Raise(TypeError)
    ELSE Ok(TrueDiv(SumCells(present, 1), PyInt(Len(present))))

----------------------------------------------------------------------------
(* Python dicts (insertion-ordered), subscripting and truthiness *)

DictHas(d, key) == \E i \in DOMAIN d.items : d.items[i].key = key
DictIndex(d, key) == CHOOSE i \in DOMAIN d.items : d.items[i].key = key
DictGet(d, key) == d.items[DictIndex(d, key)].val

\* d[key] = v
DictSet(d, key, v) ==
    IF DictHas(d, key)
    THEN Dict([d.items EXCEPT ![DictIndex(d, key)] = [key |-> key, val |-> v]])
    ELSE Dict(Append(d.items, [key |-> key, val |-> v]))

\* obj[key] for a string key: only a mapping that holds the key answers
Subscript(obj, key) ==
    IF ~IsDict(obj) THEN Raise(TypeError)
    ELSE IF ~DictHas(obj, key) THEN Raise(KeyError(key))
    ELSE Ok(DictGet(obj, key))

\* bool(v)
Truthy(v) ==
    CASE v.k = "None" -> FALSE
      [] v.k = "str"  -> v.s # <<>>
      [] v.k = "num"  -> v.n # 0
      [] v.k = "list" -> v.xs # <<>>
      [] v.k = "dict" -> v.items # <<>>
      [] OTHER        -> TRUE

----------------------------------------------------------------------------
(* calculate_kpis, KPI_analyst.py:100-146 *)

\* the failure marker, the one-character string U+274C
FailureMarker == Str(<<"CROSS MARK">>)

SUM == <<"S","U","M">>
COUNT == <<"C","O","U","N","T">>
COUNT_DISTINCT == <<"C","O","U","N","T","_","D","I","S","T","I","N","C","T">>
AVERAGE == <<"A","V","E","R","A","G","E">>
DIVIDE == <<"D","I","V","I","D","E">>
RATIO == <<"R","A","T","I","O">>
MULTIPLY == <<"M","U","L","T","I","P","L","Y">>

Digits == <<"0","1","2","3","4","5","6","7","8","9">>

\* str(n) for a whole number n >= 0
RECURSIVE IntText(_)
IntText(n) ==
    IF n < 10 THEN <<Digits[n + 1]>>
    ELSE IntText(n \div 10) \o <<Digits[(n % 10) + 1]>>

\* str(v) for the text and the whole numbers a cell or a filter value holds
py_str(v) ==
    IF IsStr(v) THEN v.s
    ELSE IF IsNum(v) /\ v.d = 1
         THEN (IF v.n < 0 THEN <<"-">> ELSE <<>>) \o IntText(Abs(v.n))
    ELSE <<"n","a","n">>

\* the filter as a comparison of texts: str(cell) == str(value)
FilterRows_by_text(d, col, value) ==
    LET keep(row) == row[ColIndex(d, col)] # NaN /\ py_str(row[ColIndex(d, col)]) = py_str(value)
    IN  DataFrame(d.columns, SelectSeq(d.rows, keep))

\* temp_df[temp_df[filter_col] == value]: a null cell equals nothing
FilterRows(d, col, value) ==
    LET keep(row) == row[ColIndex(d, col)] # NaN /\ row[ColIndex(d, col)] = value
    IN  DataFrame(d.columns, SelectSeq(d.rows, keep))

\* kpi_filter with a slip: a filter whose column is not found is ignored
kpi_filter_lenient(d, kpi) ==
    IF ~IsDict(kpi) THEN Raise(AttributeError)
    ELSE LET filter_info == IF DictHas(kpi, "filter") THEN DictGet(kpi, "filter") ELSE None IN
    IF ~Truthy(filter_info) THEN Ok(d)
    ELSE LET column == Subscript(filter_info, "column") IN
    IF column.raised THEN column
    ELSE IF ~IsStr(column.value) THEN Raise(AttributeError)
    ELSE LET filter_col == fuzzy_match(column.value.s, d.columns) IN
    IF Truthy(filter_col)
    THEN LET value == Subscript(filter_info, "value") IN
         IF value.raised THEN value
         ELSE Ok(FilterRows(d, filter_col.s, value.value))
    ELSE Ok(d)

\* lines 104-111: the working copy, restricted by the filter when there is one
kpi_filter(d, kpi) ==
    IF ~IsDict(kpi) THEN Raise(AttributeError)
    ELSE LET filter_info == IF DictHas(kpi, "filter") THEN DictGet(kpi, "filter") ELSE None IN
    IF ~Truthy(filter_info) THEN Ok(d)
    ELSE LET column == Subscript(filter_info, "column") IN
    IF column.raised THEN column
    ELSE IF ~IsStr(column.value) THEN Raise(AttributeError)
    ELSE LET filter_col == fuzzy_match(column.value.s, d.columns) IN
    IF Truthy(filter_col)
    THEN LET value == Subscript(filter_info, "value") IN
         IF value.raised THEN value
         ELSE Ok(FilterRows(d, filter_col.s, value.value))
    ELSE Raise(ValueError("Filter column not found", column.value))

\* aggregate with a slip: a kind that is not known falls back to the sum
aggregate_default_sum(cells, agg_type) ==
    IF agg_type = Str(COUNT) THEN series_count(cells)
    ELSE IF agg_type = Str(COUNT_DISTINCT) THEN series_nunique(cells)
    ELSE IF agg_type = Str(AVERAGE) THEN series_mean(cells)
    ELSE series_sum(cells)

\* lines 118-127: one aggregate of a column of the working copy
aggregate(cells, agg_type) ==
    IF agg_type = Str(SUM) THEN series_sum(cells)
    ELSE IF agg_type = Str(COUNT) THEN series_count(cells)
    ELSE IF agg_type = Str(COUNT_DISTINCT) THEN series_nunique(cells)
    ELSE IF agg_type = Str(AVERAGE) THEN series_mean(cells)
    ELSE Raise(ValueError("Unsupported aggregation", agg_type))

\* agg_loop with a slip: an entry that fails is skipped
RECURSIVE agg_loop_skip_failed(_, _, _, _, _)
agg_loop_skip_failed(d, temp_df, items, i, agg_results) ==
    IF i > Len(items) THEN Ok(agg_results)
    ELSE LET col_key == items[i].key
             actual_col == fuzzy_match(col_key, d.columns)
             a == aggregate(Series(temp_df, actual_col.s), items[i].val)
         IN  IF ~Truthy(actual_col) \/ a.raised
             THEN agg_loop_skip_failed(d, temp_df, items, i + 1, agg_results)
             ELSE agg_loop_skip_failed(d, temp_df, items, i + 1,
                                       DictSet(agg_results, col_key, a.value))

\* lines 114-127: the loop over aggregation_map.items(), from entry i on
RECURSIVE agg_loop(_, _, _, _, _)
agg_loop(d, temp_df, items, i, agg_results) ==
    IF i > Len(items) THEN Ok(agg_results)
    ELSE LET col_key == items[i].key
             actual_col == fuzzy_match(col_key, d.columns)
         IN  IF ~Truthy(actual_col)
             THEN Raise(ValueError("Column not found", Str(col_key)))
             ELSE LET a == aggregate(Series(temp_df, actual_col.s), items[i].val) IN
                  IF a.raised THEN a
                  ELSE agg_loop(d, temp_df, items, i + 1,
                                DictSet(agg_results, col_key, a.value))

\* lines 113-114
kpi_aggregate(d, temp_df, kpi) ==
    LET aggregation_map == Subscript(kpi, "aggregation_map") IN
    IF aggregation_map.raised THEN aggregation_map
    ELSE IF ~IsDict(aggregation_map.value) THEN Raise(AttributeError)
    ELSE agg_loop(d, temp_df, aggregation_map.value.items, 1, Dict(<<>>))

\* a / b and a * b on aggregate results
py_div(a, b) ==
    IF IsStr(a) \/ IsStr(b) THEN Raise(TypeError) ELSE Ok(TrueDiv(a, b))

RECURSIVE Repeat(_, _)
Repeat(s, n) == IF n <= 0 THEN <<>> ELSE s \o Repeat(s, n - 1)

py_mul(a, b) ==
    IF IsStr(a) /\ IsStr(b) THEN Raise(TypeError)
    ELSE IF IsStr(a) THEN (IF IsFinite(b) /\ b.d = 1 THEN Ok(Str(Repeat(a.s, b.n))) ELSE Raise(TypeError))
    ELSE IF IsStr(b) THEN (IF IsFinite(a) /\ a.d = 1 THEN Ok(Str(Repeat(b.s, a.n))) ELSE Raise(TypeError))
    ELSE Ok(Mul(a, b))

\* kpi_combine with a slip: DIVIDE, RATIO and MULTIPLY over a single aggregate
\* pass that aggregate through
kpi_combine_missing_as_one(kpi, agg_results) ==
    LET operation == Subscript(kpi, "operation")
        n == Len(agg_results.items)
        first == agg_results.items[1].val
        second == agg_results.items[2].val
    IN
    IF operation.raised THEN operation
    ELSE IF ~IsStr(operation.value) THEN Raise(AttributeError)
    ELSE LET op == upper(operation.value.s) IN
    IF op \in {SUM, AVERAGE, COUNT, COUNT_DISTINCT}
    THEN (IF n < 1 THEN Raise(IndexError) ELSE Ok(first))
    ELSE IF op \in {DIVIDE, RATIO}
    THEN (IF n < 1 THEN Raise(IndexError)
          ELSE IF n < 2 THEN Ok(first)
          ELSE IF ~IsZero(second) THEN py_div(first, second) ELSE Ok(PyInt(0)))
    ELSE IF op = MULTIPLY
    THEN (IF n < 1 THEN Raise(IndexError)
          ELSE IF n < 2 THEN Ok(first) ELSE py_mul(first, second))
    ELSE Raise(ValueError("Unsupported operation", Str(op)))

\* kpi_combine with a slip: an operation it does not know passes the first
\* aggregate through
kpi_combine_default_first(kpi, agg_results) ==
    LET operation == Subscript(kpi, "operation")
        n == Len(agg_results.items)
        first == agg_results.items[1].val
        second == agg_results.items[2].val
    IN
    IF operation.raised THEN operation
    ELSE IF ~IsStr(operation.value) THEN Raise(AttributeError)
    ELSE LET op == upper(operation.value.s) IN
    IF op \in {DIVIDE, RATIO}
    THEN (IF n < 2 THEN Raise(IndexError)
          ELSE IF ~IsZero(second) THEN py_div(first, second) ELSE Ok(PyInt(0)))
    ELSE IF op = MULTIPLY
    THEN (IF n < 2 THEN Raise(IndexError) ELSE py_mul(first, second))
    ELSE (IF n < 1 THEN Raise(IndexError) ELSE Ok(first))

\* kpi_combine with a slip: DIVIDE and RATIO take their operands the other
\* way round
kpi_combine_swapped(kpi, agg_results) ==
    LET operation == Subscript(kpi, "operation")
        n == Len(agg_results.items)
        first == agg_results.items[1].val
        second == agg_results.items[2].val
    IN
    IF operation.raised THEN operation
    ELSE IF ~IsStr(operation.value) THEN Raise(AttributeError)
    ELSE LET op == upper(operation.value.s) IN
    IF op \in {SUM, AVERAGE, COUNT, COUNT_DISTINCT}
    THEN (IF n < 1 THEN Raise(IndexError) ELSE Ok(first))
    ELSE IF op \in {DIVIDE, RATIO}
    THEN (IF n < 2 THEN Raise(IndexError)
          ELSE IF ~IsZero(first) THEN py_div(second, first) ELSE Ok(PyInt(0)))
    ELSE IF op = MULTIPLY
    THEN (IF n < 2 THEN Raise(IndexError) ELSE py_mul(first, second))
    ELSE Raise(ValueError("Unsupported operation", Str(op)))

\* lines 129-139: the operation applied to the aggregates in insertion order
kpi_combine(kpi, agg_results) ==
    LET operation == Subscript(kpi, "operation")
        n == Len(agg_results.items)
        first == agg_results.items[1].val
        second == agg_results.items[2].val
    IN
    IF operation.raised THEN operation
    ELSE IF ~IsStr(operation.value) THEN Raise(AttributeError)
    ELSE LET op == upper(operation.value.s) IN
    IF op \in {SUM, AVERAGE, COUNT, COUNT_DISTINCT}
    THEN (IF n < 1 THEN Raise(IndexError) ELSE Ok(first))
    ELSE IF op \in {DIVIDE, RATIO}
    THEN (IF n < 2 THEN Raise(IndexError)
          ELSE IF ~IsZero(second) THEN py_div(first, second) ELSE Ok(PyInt(0)))
    ELSE IF op = MULTIPLY
    THEN (IF n < 2 THEN Raise(IndexError) ELSE py_mul(first, second))
    ELSE Raise(ValueError("Unsupported operation", Str(op)))

\* lines 104-141: the body of the try block, up to the value to store
kpi_try(d, kpi) ==
    LET temp_df == kpi_filter(d, kpi) IN
    IF temp_df.raised THEN temp_df
    ELSE LET agg_results == kpi_aggregate(d, temp_df.value, kpi) IN
    IF agg_results.raised THEN agg_results
    ELSE LET val == kpi_combine(kpi, agg_results.value) IN
    IF val.raised THEN val
    ELSE Ok(IF IsNum(val.value) THEN round2(val.value) ELSE val.value)

\* str(e)
str_exc(e) == [k |-> "str", of |-> e]

\* lines 103-145: one turn of the loop.  A value that is no mapping fails in
\* the try block at kpi.get and again in the handler at kpi["value"] = ...,
\* and that second exception leaves calculate_kpis.
kpi_step(d, kpi) ==
    LET t == kpi_try(d, kpi) IN
    IF ~t.raised THEN Ok(DictSet(kpi, "value", t.value))
    ELSE IF ~IsDict(kpi) THEN Raise(TypeError)
    ELSE Ok(DictSet(DictSet(kpi, "value", FailureMarker), "error", str_exc(t.exc)))

RECURSIVE kpi_loop(_, _, _, _)
kpi_loop(d, defs, i, results) ==
    IF i > Len(defs) THEN Ok(results)
    ELSE LET r == kpi_step(d, defs[i]) IN
         IF r.raised THEN r ELSE kpi_loop(d, defs, i + 1, Append(results, r.value))

\* iter(v): what a for loop walks over
Iterate(v) ==
    CASE v.k = "list" -> Ok(v.xs)
      [] v.k = "dict" -> Ok([i \in DOMAIN v.items |-> Str(v.items[i].key)])
      [] v.k = "str"  -> Ok([i \in DOMAIN v.s |-> Str(<<v.s[i]>>)])
      [] OTHER        -> Raise(TypeError)

calculate_kpis(d, kpi_definitions) ==
    LET it == Iterate(kpi_definitions) IN
    IF it.raised THEN it ELSE kpi_loop(d, it.value, 1, <<>>)

----------------------------------------------------------------------------
(* Column names and cell texts of the datasets *)

Region == <<"R","e","g","i","o","n">>
Sales == <<"S","a","l","e","s">>
Profit == <<"P","r","o","f","i","t">>
OrderDate == <<"O","r","d","e","r"," ","D","a","t","e">>
ProfitPerSales == <<"P","r","o","f","i","t","/","S","a","l","e","s">>

East == <<"E","a","s","t">>
West == <<"W","e","s","t">>
Jan15 == <<"2","0","2","4","-","0","1","-","1","5">>
Feb03 == <<"2","0","2","4","-","0","2","-","0","3">>
NotADate == <<"n","/","a">>

----------------------------------------------------------------------------
(* generate_chart, BA.py:105-200: strings, dates, ordering and grouping *)

\* str.strip(), for spaces
RECURSIVE lstrip(_)
lstrip(s) == IF s # <<>> /\ IsSpace(Head(s)) THEN lstrip(Tail(s)) ELSE s
RECURSIVE rstrip(_)
rstrip(s) ==
    IF s # <<>> /\ IsSpace(s[Len(s)]) THEN rstrip(SubSeq(s, 1, Len(s) - 1)) ELSE s
strip(s) == rstrip(lstrip(s))

\* str.split(sep) for a one-character separator: the pieces between separators
RECURSIVE split(_, _)
split(s, sep) ==
    IF \E i \in DOMAIN s : s[i] = sep
    THEN LET i == CHOOSE i \in DOMAIN s : s[i] = sep /\ \A j \in 1..(i - 1) : s[j] # sep
         IN  <<SubSeq(s, 1, i - 1)>> \o split(SubSeq(s, i + 1, Len(s)), sep)
    ELSE <<s>>

Timestamp(y, m, d) == [k |-> "ts", y |-> y, m |-> m, d |-> d]

IsDigit(c) == \E i \in DOMAIN Digits : Digits[i] = c
DigitVal(c) == (CHOOSE i \in DOMAIN Digits : Digits[i] = c) - 1

\* pd.to_datetime(..., errors='coerce') on one cell: a YYYY-MM-DD string is
\* parsed, a timestamp is kept, anything else becomes NaT
to_datetime(c) ==
    IF c.k = "ts" THEN c
    ELSE IF ~IsStr(c) THEN NaN
    ELSE LET s == c.s IN
         IF /\ Len(s) = 10 /\ s[5] = "-" /\ s[8] = "-"
            /\ \A i \in {1, 2, 3, 4, 6, 7, 9, 10} : IsDigit(s[i])
         THEN LET y == 1000 * DigitVal(s[1]) + 100 * DigitVal(s[2])
                         + 10 * DigitVal(s[3]) + DigitVal(s[4])
                  m == 10 * DigitVal(s[6]) + DigitVal(s[7])
                  d == 10 * DigitVal(s[9]) + DigitVal(s[10])
              IN  IF m \in 1..12 /\ d \in 1..31 THEN Timestamp(y, m, d) ELSE NaN
         ELSE NaN

\* .dt.to_period('M').dt.to_timestamp(): the first day of the month
month_start(c) == IF c.k = "ts" THEN Timestamp(c.y, c.m, 1) ELSE c

\* the characters of the model in code point order
CodePoints ==
    <<" ", "-", "/">> \o Digits \o UpperLetters \o <<"_">> \o LowerLetters
Ord(c) == CHOOSE i \in DOMAIN CodePoints : CodePoints[i] = c

RECURSIVE StrLess(_, _)
StrLess(a, b) ==
    IF b = <<>> THEN FALSE
    ELSE IF a = <<>> THEN TRUE
    ELSE IF Head(a) = Head(b) THEN StrLess(Tail(a), Tail(b))
    ELSE Ord(Head(a)) < Ord(Head(b))

\* a < b for two cells of one column
CellLess(a, b) ==
    CASE IsNum(a) /\ IsNum(b) -> a.n * b.d < b.n * a.d
      [] IsStr(a) /\ IsStr(b) -> StrLess(a.s, b.s)
      [] a.k = "ts" /\ b.k = "ts" ->
            \/ a.y < b.y
            \/ a.y = b.y /\ a.m < b.m
            \/ a.y = b.y /\ a.m = b.m /\ a.d < b.d
      [] OTHER -> FALSE

\* rows compared on the key columns in turn
RECURSIVE RowLess(_, _, _)
RowLess(r1, r2, idx) ==
    IF idx = <<>> THEN FALSE
    ELSE IF r1[Head(idx)] = r2[Head(idx)] THEN RowLess(r1, r2, Tail(idx))
    ELSE CellLess(r1[Head(idx)], r2[Head(idx)])

\* a row put into sorted rows, behind the rows that are not greater
RECURSIVE InsertRow(_, _, _)
InsertRow(row, sorted, idx) ==
    IF sorted = <<>> THEN <<row>>
    ELSE IF RowLess(row, Head(sorted), idx) THEN <<row>> \o sorted
    ELSE <<Head(sorted)>> \o InsertRow(row, Tail(sorted), idx)

RECURSIVE SortRows(_, _)
SortRows(rows, idx) ==
    IF rows = <<>> THEN <<>>
    ELSE InsertRow(rows[Len(rows)], SortRows(SubSeq(rows, 1, Len(rows) - 1), idx), idx)

\* df.sort_values(by=x); rows with equal keys keep their order
sort_values(d, x) == DataFrame(d.columns, SortRows(d.rows, <<ColIndex(d, x)>>))

\* df[[...]]: the named columns, in the order named
select(d, names) ==
    DataFrame(names,
              [i \in DOMAIN d.rows |-> [j \in DOMAIN names |-> d.rows[i][ColIndex(d, names[j])]]])

\* df.dropna(subset=names): the rows with no null in the named columns
dropna(d, names) ==
    LET full(row) == \A j \in DOMAIN names : row[ColIndex(d, names[j])] # NaN
    IN  DataFrame(d.columns, SelectSeq(d.rows, full))

\* df[name] = cells: a new last column, or new cells for the column of that name
assign(d, name, cells) ==
    IF HasColumn(d, name)
    THEN DataFrame(d.columns,
                   [i \in DOMAIN d.rows |-> [d.rows[i] EXCEPT ![ColIndex(d, name)] = cells[i]]])
    ELSE DataFrame(Append(d.columns, name),
                   [i \in DOMAIN d.rows |-> Append(d.rows[i], cells[i])])

\* df.groupby(keys)[y].sum().reset_index(): one row per distinct key, keys in
\* ascending order, y summed over the rows of the key
groupby_sum(d, keys, y) ==
    LET idx == [j \in DOMAIN keys |-> ColIndex(d, keys[j])]
        keyof(row) == [j \in DOMAIN keys |-> row[idx[j]]]
        present == SelectSeq(d.rows, LAMBDA row : \A j \in DOMAIN keys : row[idx[j]] # NaN)
        distinct == {keyof(present[i]) : i \in DOMAIN present}
        RECURSIVE first_rows(_, _)
        first_rows(rows, seen) ==
            IF rows = <<>> THEN <<>>
            ELSE IF keyof(Head(rows)) \in seen THEN first_rows(Tail(rows), seen)
            ELSE <<keyof(Head(rows))>> \o first_rows(Tail(rows), seen \cup {keyof(Head(rows))})
        ordered == SortRows(first_rows(present, {}), [j \in DOMAIN keys |-> j])
        total(key) ==
            series_sum(Series(DataFrame(d.columns,
                                        SelectSeq(present, LAMBDA row : keyof(row) = key)), y)).value
    IN  DataFrame(keys \o <<y>>,
                  [i \in DOMAIN ordered |-> ordered[i] \o <<total(ordered[i])>>])

\* df.melt(id_vars=x, value_vars=y, var_name="Series", value_name="Value"):
\* for each series in turn, one row per row of df
melt(d, x, y) ==
    LET n == Len(d.rows) IN
    DataFrame(<<x, <<"S","e","r","i","e","s">>, <<"V","a","l","u","e">>>>,
              [i \in 1..(n * Len(y)) |->
                  LET series == y[((i - 1) \div n) + 1]
                      row == d.rows[((i - 1) % n) + 1]
                  IN  <<row[ColIndex(d, x)], Str(series), row[ColIndex(d, series)]>>])

----------------------------------------------------------------------------
(* generate_chart, BA.py:105-200 *)

Figure(chart_type, table, color) ==
    [k |-> "figure", chart_type |-> chart_type, table |-> table, color |-> color]

bar == <<"b","a","r">>
line == <<"l","i","n","e">>
scatter == <<"s","c","a","t","t","e","r">>
pie == <<"p","i","e">>

\* lines 107-108
chart_unpack(spec) ==
    LET chart_type == Subscript(spec, "chart_type") IN
    IF chart_type.raised THEN chart_type
    ELSE IF ~IsStr(chart_type.value) THEN Raise(AttributeError)
    ELSE LET x == Subscript(spec, "x") IN
    IF x.raised THEN x
    ELSE LET y == Subscript(spec, "y") IN
    IF y.raised THEN y
    ELSE Ok([chart_type |-> lower(chart_type.value.s), x |-> x.value, y |-> y.value,
             title |-> IF DictHas(spec, "title") THEN DictGet(spec, "title")
                       ELSE Str(<<"C","h","a","r","t">>)])

\* the derived column taken without looking for its operands: a column of nulls
chart_ratio_null_column(d, y) ==
    IF ~(IsStr(y) /\ Contains(y.s, <<"/">>)) THEN [raised |-> FALSE, done |-> FALSE, df |-> d]
    ELSE [raised |-> FALSE, done |-> FALSE,
          df |-> assign(d, y.s, [i \in DOMAIN d.rows |-> NaN])]

\* lines 110-116, on the caller's DataFrame d: the derived column is assigned
\* into d itself.  done: the function has returned None at line 116.
chart_ratio(d, y) ==
    IF ~(IsStr(y) /\ Contains(y.s, <<"/">>)) THEN [raised |-> FALSE, done |-> FALSE, df |-> d]
    ELSE LET parts == split(y.s, "/") IN
    IF Len(parts) # 2 THEN [raised |-> TRUE, exc |-> ValueError("unpack", y), df |-> d]
    ELSE LET num_col == strip(parts[1])
             denom_col == strip(parts[2])
         IN
    IF HasColumn(d, num_col) /\ HasColumn(d, denom_col)
    THEN LET num == Series(d, num_col)
             denom == Series(d, denom_col)
         IN  IF \E i \in DOMAIN d.rows :
                    \/ ~(IsNum(num[i]) \/ num[i] = NaN)
                    \/ ~(IsNum(denom[i]) \/ denom[i] = NaN)
             THEN [raised |-> TRUE, exc |-> TypeError, df |-> d]
             ELSE [raised |-> FALSE, done |-> FALSE,
                   df |-> assign(d, y.s, [i \in DOMAIN d.rows |-> TrueDiv(num[i], denom[i])])]
    ELSE [raised |-> FALSE, done |-> TRUE, df |-> d]

\* lines 133-138 on the working table: parse, drop what does not parse, bucket
\* to the month
bucket_dates(d, x) ==
    LET parsed == assign(d, x, [i \in DOMAIN d.rows |-> to_datetime(Series(d, x)[i])])
        kept == dropna(parsed, <<x>>)
    IN  assign(kept, x, [i \in DOMAIN kept.rows |-> month_start(Series(kept, x)[i])])

\* lines 140-147: the grouping column the title asks for
infer_color(d, title) ==
    LET title_lower == lower(title)
        keywords == { <<"c","a","t","e","g","o","r","y">>, <<"s","e","g","m","e","n","t">>,
                      <<"r","e","g","i","o","n">>, <<"s","t","a","t","e">> }
        possible_groups ==
            << <<"C","a","t","e","g","o","r","y">>,
               <<"S","u","b","-","C","a","t","e","g","o","r","y">>,
               <<"S","e","g","m","e","n","t">>, Region, <<"S","t","a","t","e">> >>
        found == SelectSeq(possible_groups, LAMBDA col : HasColumn(d, col))
    IN  IF (\E kw \in keywords : Contains(title_lower, kw)) /\ found # <<>>
        THEN Str(Head(found)) ELSE None

HasDuplicates(names) == \E i, j \in DOMAIN names : i # j /\ names[i] = names[j]

\* several series with a dispatch that also draws a pie
chart_multi_with_pie(d, chart_type, x, y) ==
    IF HasDuplicates(<<x>> \o y) THEN Raise(ValueError("label not unique", Str(x)))
    ELSE LET picked == select(d, <<x>> \o y)
             sorted == sort_values(dropna(picked, picked.columns), x)
             df_melted == melt(sorted, x, y)
         IN  IF chart_type \in {line, bar, scatter, pie}
             THEN Ok(Figure(chart_type, df_melted, Str(<<"S","e","r","i","e","s">>)))
             ELSE Ok(None)

\* lines 149-166: several series
chart_multi(d, chart_type, x, y) ==
    IF HasDuplicates(<<x>> \o y) THEN Raise(ValueError("label not unique", Str(x)))
    ELSE LET picked == select(d, <<x>> \o y)
             sorted == sort_values(dropna(picked, picked.columns), x)
             df_melted == melt(sorted, x, y)
         IN  IF chart_type \in {line, bar, scatter}
             THEN Ok(Figure(chart_type, df_melted, Str(<<"S","e","r","i","e","s">>)))
             ELSE Ok(None)

\* lines 168-197: one series
chart_single(d, chart_type, x, y, color_col) ==
    LET keys == IF chart_type = pie \/ color_col = None THEN <<x>> ELSE <<x, color_col.s>>
    IN
    IF HasDuplicates(keys \o <<y>>) THEN Raise(ValueError("Grouper not 1-dimensional", Str(x)))
    ELSE LET grouped == sort_values(groupby_sum(d, keys, y), x) IN
         IF chart_type \in {bar, line, scatter}
         THEN Ok(Figure(chart_type, grouped, color_col))
         ELSE IF chart_type = pie THEN Ok(Figure(chart_type, grouped, None))
         ELSE Ok(None)

\* lines 118-197, after the derived column: d is the caller's DataFrame, read
\* here and copied by dropna before anything else is assigned
chart_build(d, chart_type, x, y, title) ==
    IF ~IsStr(x) THEN Raise(AttributeError)
    ELSE IF IsStr(y) /\ (~HasColumn(d, x.s) \/ ~HasColumn(d, y.s)) THEN Ok(None)
    ELSE IF ~(IsStr(y) \/ y.k = "list") THEN Raise(TypeError)
    ELSE IF ~IsStr(y) /\ \E i \in DOMAIN y.xs : ~IsStr(y.xs[i]) THEN Raise(KeyError("y"))
    ELSE LET ycols == IF IsStr(y) THEN <<y.s>> ELSE [i \in DOMAIN y.xs |-> y.xs[i].s]
             subset == <<x.s>> \o ycols
         IN
    IF \E i \in DOMAIN subset : ~HasColumn(d, subset[i]) THEN Raise(KeyError("subset"))
    ELSE LET dropped == dropna(d, subset)
             is_datetime == \E i \in DOMAIN dropped.rows : Series(dropped, x.s)[i].k = "ts"
             working == IF is_datetime \/ Contains(lower(x.s), <<"d","a","t","e">>)
                        THEN bucket_dates(dropped, x.s) ELSE dropped
         IN
    IF ~IsStr(title) THEN Raise(AttributeError)
    ELSE IF ~IsStr(y) THEN chart_multi(working, chart_type, x.s, ycols)
    ELSE chart_single(working, chart_type, x.s, y.s, infer_color(working, title.s))

\* the try block: how it ends, and the caller's DataFrame as it leaves it
chart_try(d, spec) ==
    LET u == chart_unpack(spec) IN
    IF u.raised THEN [raised |-> TRUE, exc |-> u.exc, df |-> d]
    ELSE LET r == chart_ratio(d, u.value.y) IN
    IF r.raised THEN r
    ELSE IF r.done THEN [raised |-> FALSE, value |-> None, df |-> r.df]
    ELSE LET b == chart_build(r.df, u.value.chart_type, u.value.x, u.value.y, u.value.title) IN
         IF b.raised THEN [raised |-> TRUE, exc |-> b.exc, df |-> r.df]
         ELSE [raised |-> FALSE, value |-> b.value, df |-> r.df]

\* generate_chart with a slip: the handler catches KeyError only
generate_chart_except_keyerror(d, spec) ==
    LET t == chart_try(d, spec) IN
    IF t.raised /\ t.exc.exc = "KeyError"
    THEN [raised |-> FALSE, value |-> None, df |-> t.df] ELSE t

\* lines 105-200: except Exception turns every failure into None
generate_chart(d, spec) ==
    LET t == chart_try(d, spec) IN
    IF t.raised THEN [raised |-> FALSE, value |-> None, df |-> t.df] ELSE t

----------------------------------------------------------------------------
(* get_mock_benchmarks, KPI_analyst.py:149-156 *)

NotApplicable == Str(<<"N","/","A">>)

\* float(v): a number is taken as it is, a text only when it spells a whole
\* number; any other text (the failure marker among them) is a ValueError
py_float(v) ==
    IF IsNum(v) \/ v = NaN THEN Ok(v)
    ELSE IF ~IsStr(v) THEN Raise(TypeError)
    ELSE IF v.s # <<>> /\ \A i \in DOMAIN v.s : IsDigit(v.s[i])
    THEN LET RECURSIVE whole(_)
             whole(t) == IF t = <<>> THEN 0
                         ELSE 10 * whole(SubSeq(t, 1, Len(t) - 1)) + DigitVal(t[Len(t)])
         IN  Ok(PyInt(whole(v.s)))
    ELSE Raise(ValueError("could not convert string to float", v))

\* one turn of the loop with a slip: a value that is no number is the benchmark
bench_step_keep_value(kpi) ==
    LET value == Subscript(kpi, "value")
        val == IF value.raised THEN value ELSE py_float(value.value)
    IN  IF ~val.raised
        THEN Ok(DictSet(kpi, "benchmark", round2(Mul(val.value, Num(11, 10)))))
        ELSE IF ~IsDict(kpi) THEN Raise(TypeError)
        ELSE Ok(DictSet(kpi, "benchmark", DictGet(kpi, "value")))

\* lines 151-155: one turn of the loop.  round(val * 1.1, 2) is taken on the
\* exact product.  The bare except sets the marker, which itself fails on a
\* record that is no mapping.
bench_step(kpi) ==
    LET value == Subscript(kpi, "value")
        val == IF value.raised THEN value ELSE py_float(value.value)
    IN  IF ~val.raised
        THEN Ok(DictSet(kpi, "benchmark", round2(Mul(val.value, Num(11, 10)))))
        ELSE IF ~IsDict(kpi) THEN Raise(TypeError)
        ELSE Ok(DictSet(kpi, "benchmark", NotApplicable))

RECURSIVE bench_loop(_, _, _)
bench_loop(kpis, i, results) ==
    IF i > Len(kpis) THEN Ok(results)
    ELSE LET r == bench_step(kpis[i]) IN
         IF r.raised THEN r ELSE bench_loop(kpis, i + 1, Append(results, r.value))

\* kpis is the list calculate_kpis returned
get_mock_benchmarks(kpis) == bench_loop(kpis, 1, <<>>)

----------------------------------------------------------------------------
(* Bounds and the inputs drawn within them *)

MaxRows == 2
MaxAggs == 2
MaxBatch == 2
MaxCands == 3

\* all sequences over S of length at most n
RECURSIVE SeqsUpTo(_, _)
SeqsUpTo(S, n) ==
    IF n = 0 THEN {<<>>}
    ELSE LET shorter == SeqsUpTo(S, n - 1)
         IN  shorter \cup {Append(q, x) : q \in {t \in shorter : Len(t) = n - 1}, x \in S}

Columns == <<Region, Sales, Profit, OrderDate>>

\* the rows a loaded table is made of: Region and Order Date hold text,
\* Sales whole numbers, Profit whole numbers or null
RowVals ==
    { <<Str(East), PyInt(2), PyInt(1), Str(Jan15)>>,
      <<Str(West), PyInt(0), NaN, Str(Feb03)>>,
      <<Str(East), PyInt(1), PyInt(2), Str(NotADate)>> }

Datasets == {DataFrame(Columns, rows) : rows \in SeqsUpTo(RowVals, MaxRows)}

\* column references as the text-generation service writes them
ref_sales == <<"s","a","l","e","s">>
ref_region == <<"r","e","g","i","o","n">>
ref_cost == <<"C","o","s","t">>
ref_ratio == <<"p","r","o","f","i","t"," ","/"," ","s","a","l","e","s">>

MEDIAN == <<"M","E","D","I","A","N">>

Item(key, val) == [key |-> key, val |-> val]

\* the entries an aggregation_map is made of: every supported kind, a kind
\* that is not supported, a reference that names no column, and text under
\* AVERAGE
AggEntries ==
    { Item(ref_sales, Str(SUM)), Item(Profit, Str(AVERAGE)), Item(Profit, Str(COUNT)),
      Item(ref_region, Str(COUNT_DISTINCT)), Item(ref_region, Str(AVERAGE)),
      Item(ref_cost, Str(SUM)), Item(ref_sales, Str(MEDIAN)), Item(ref_cost, Str(MEDIAN)) }

\* ordered mappings with distinct keys, at most MaxAggs entries
AggMaps ==
    { Dict(items) : items \in
        { q \in SeqsUpTo(AggEntries, MaxAggs) :
            \A i, j \in DOMAIN q : i # j => q[i].key # q[j].key } }

Operations ==
    { Str(SUM), Str(<<"A","v","e","r","a","g","e">>), Str(COUNT), Str(DIVIDE),
      Str(<<"r","a","t","i","o">>), Str(MULTIPLY), Str(<<"M","E","D","I","A","N">>) }

Filters ==
    { Dict(<<Item("column", Str(ref_region)), Item("value", Str(East))>>),
      Dict(<<Item("column", Str(ref_sales)), Item("value", PyInt(2))>>),
      Dict(<<Item("column", Str(ref_sales)), Item("value", Str(<<"2">>))>>),
      Dict(<<Item("column", Str(ref_cost)), Item("value", Str(East))>>),
      Dict(<<Item("column", Str(ref_region))>>) }

KpiName == Str(<<"K","P","I">>)

KpiDef(o, m, f) == Dict(<<Item("name", KpiName)>> \o o \o m \o f)

Absent == <<>>
Field(key, v) == <<Item(key, v)>>

\* KPI definitions without a filter: operation and aggregation_map may be absent
UnfilteredDefs ==
    { KpiDef(o, m, Absent) :
        o \in {Absent} \cup {Field("operation", x) : x \in Operations},
        m \in {Absent} \cup {Field("aggregation_map", x) : x \in AggMaps} }

\* KPI definitions with a filter, over the maps of at most one entry
FilteredDefs ==
    { KpiDef(Field("operation", o), Field("aggregation_map", m), Field("filter", f)) :
        o \in {Str(SUM), Str(<<"r","a","t","i","o">>)},
        m \in {x \in AggMaps : Len(x.items) <= 1},
        f \in Filters \cup {Dict(<<>>)} }
    \cup
    { KpiDef(Field("operation", Str(RATIO)),
             Field("aggregation_map",
                   Dict(<<Item(ref_sales, Str(SUM)), Item(Profit, Str(COUNT))>>)),
             Field("filter", f)) : f \in Filters }

KpiDefs == UnfilteredDefs \cup FilteredDefs

\* what a batch of several entries is made of: a definition that resolves, two
\* that fail, and a value that is no mapping
GoodDef ==
    KpiDef(Field("operation", Str(RATIO)),
           Field("aggregation_map",
                 Dict(<<Item(ref_sales, Str(SUM)), Item(Profit, Str(COUNT))>>)),
           Absent)
BadColumnDef ==
    KpiDef(Field("operation", Str(SUM)),
           Field("aggregation_map", Dict(<<Item(ref_cost, Str(SUM))>>)), Absent)
\* SUM over the text column: the value is text
TextSumDef ==
    KpiDef(Field("operation", Str(SUM)),
           Field("aggregation_map", Dict(<<Item(ref_region, Str(SUM))>>)), Absent)
\* RATIO over one aggregate, and RATIO over three
ShortRatioDef ==
    KpiDef(Field("operation", Str(RATIO)),
           Field("aggregation_map", Dict(<<Item(ref_sales, Str(SUM))>>)), Absent)
LongRatioDef ==
    KpiDef(Field("operation", Str(RATIO)),
           Field("aggregation_map",
                 Dict(<<Item(ref_sales, Str(SUM)), Item(Profit, Str(COUNT)),
                        Item(ref_region, Str(COUNT_DISTINCT))>>)),
           Absent)
BatchEntries == {GoodDef, BadColumnDef, ShortRatioDef, Dict(<<>>), KpiName}

\* kpi_definitions as json.loads may return it: a list of one definition, a
\* list of several entries, or a value that is no list
KpiInputs ==
    {List(<<d>>) : d \in KpiDefs}
        \cup {List(q) : q \in SeqsUpTo(BatchEntries, MaxBatch)}
        \cup {GoodDef, PyInt(5), List(<<TextSumDef>>), List(<<LongRatioDef>>)}

\* chart specifications as get_chart_spec_from_insight may return them
ChartTypes == {Str(bar), Str(<<"L","i","n","e">>), Str(scatter), Str(pie), Str(<<"a","r","e","a">>)}
ChartXs == {Str(Region), Str(Sales), Str(OrderDate), Str(ref_cost), PyInt(1)}
ChartYs ==
    { Str(Profit), Str(Sales), Str(ref_cost), Str(ProfitPerSales),
      Str(<<"P","r","o","f","i","t"," ","/"," ","C","o","s","t">>),
      Str(<<"P","r","o","f","i","t","/","S","a","l","e","s","/","S","a","l","e","s">>),
      Str(<<"S","a","l","e","s","/","R","e","g","i","o","n">>),
      List(<<Str(Sales), Str(Profit)>>), List(<<Str(ProfitPerSales)>>),
      List(<<Str(Sales), Str(ref_cost)>>) }
ChartTitles ==
    { Str(<<"T","r","e","n","d">>),
      Str(<<"A","v","e","r","a","g","e"," ","p","r","o","f","i","t"," ","b","y"," ","R","e","g","i","o","n">>) }

ChartSpecs ==
    { Dict(c \o x \o y \o t) :
        c \in {Field("chart_type", v) : v \in ChartTypes},
        x \in {Field("x", v) : v \in ChartXs},
        y \in {Field("y", v) : v \in ChartYs},
        t \in {Absent} \cup {Field("title", v) : v \in ChartTitles} }
    \cup { Dict(Field("x", Str(Region)) \o Field("y", Str(Profit))),
           Dict(Field("chart_type", Str(bar)) \o Field("y", Str(Profit))),
           Dict(Field("chart_type", Str(bar)) \o Field("x", Str(Region))),
           Dict(Field("chart_type", PyInt(1)) \o Field("x", Str(Region))
                    \o Field("y", Str(Profit))),
           Dict(Field("chart_type", Str(bar)) \o Field("x", Str(Region))
                    \o Field("y", Str(Profit)) \o Field("title", None)),
           List(<<Str(bar)>>), Str(bar), PyInt(1) }

NoCall == [fn |-> "none"]
NoRet == [raised |-> FALSE]
\* st.session_state before run_chat has run: none of its keys is set
NoSession == [keys |-> {}, messages |-> <<>>, used_initial_prompt |-> FALSE]

Init ==
    /\ df \in Datasets
    /\ df0 = df
    /\ pc = "idle"
    /\ call = NoCall
    /\ ret = NoRet
    /\ session = NoSession

\* the host calls calculate_kpis(df, kpi_definitions); the function reads df
\* and writes only into its own copy and into the definitions
CalculateKpis(inputs) ==
    /\ pc = "idle"
    /\ \E kpi_definitions \in inputs :
        /\ call' = [fn |-> "calculate_kpis", kpi_definitions |-> kpi_definitions,
                     before |-> df]
        /\ ret' = calculate_kpis(df, kpi_definitions)
    /\ pc' = "returned"
    /\ UNCHANGED <<df, df0, session>>

\* the host takes the result and is ready for its next call
Return ==
    /\ pc = "returned"
    /\ pc' = "idle"
    /\ call' = NoCall
    /\ ret' = NoRet
    /\ UNCHANGED <<df, df0, session>>

\* the host calls generate_chart(df, spec) on its own DataFrame object; what
\* the function assigns into df before it copies it stays in the host's object
GenerateChart(inputs) ==
    /\ pc = "idle"
    /\ \E spec \in inputs :
        LET r == generate_chart(df, spec) IN
        /\ call' = [fn |-> "generate_chart", spec |-> spec, before |-> df]
        /\ ret' = IF r.raised THEN Raise(r.exc) ELSE Ok(r.value)
        /\ df' = r.df
    /\ pc' = "returned"
    /\ UNCHANGED <<df0, session>>

\* run_kpi_analyst, KPI_analyst.py:223-224: the records calculate_kpis
\* returned go to get_mock_benchmarks
GetMockBenchmarks ==
    /\ pc = "returned"
    /\ call.fn = "calculate_kpis"
    /\ ~ret.raised
    /\ call' = [fn |-> "get_mock_benchmarks", kpis |-> ret.value, before |-> df]
    /\ ret' = get_mock_benchmarks(ret.value)
    /\ pc' = "returned"
    /\ UNCHANGED <<df, df0, session>>

NextKpi == CalculateKpis(KpiInputs) \/ GetMockBenchmarks \/ Return
SpecKpi == Init /\ [][NextKpi]_vars

\* one session of the host: KPI batches and charts against the same DataFrame
RatioDef ==
    KpiDef(Field("operation", Str(SUM)),
           Field("aggregation_map", Dict(<<Item(ref_ratio, Str(COUNT))>>)), Absent)
SessionKpiInputs == {List(<<d>>) : d \in {GoodDef, BadColumnDef, RatioDef}}

Next == CalculateKpis(SessionKpiInputs) \/ GenerateChart(ChartSpecs) \/ Return
Spec == Init /\ [][Next]_vars

----------------------------------------------------------------------------
(* The text-generation service answers with text; get_kpi_list and         *)
(* get_chart_spec_from_insight parse it.  A text is a sequence of lexical  *)
(* tokens: the two code fences, brackets, braces, an object key with its   *)
(* colon, a number, and a word of prose.                                   *)

MaxTextLen == 4

\* three backquotes followed by json, three backquotes, and "k":
FenceJson == "fence json"
Fence == "fence"
KeyToken == "k:"
NumberToken == "1"
Prose == "Sure"
Tokens == {FenceJson, Fence, "[", "]", "{", "}", KeyToken, NumberToken, Prose}
Texts == SeqsUpTo(Tokens, MaxTextLen)

Min(S) == CHOOSE x \in S : \A y \in S : x <= y
Max(S) == CHOOSE x \in S : \A y \in S : x >= y
From(ts, i) == SubSeq(ts, i, Len(ts))

JSONDecodeError == [type |-> "JSONDecodeError"]

\* json.loads: one value (a number, an array, an object), nothing after it
JsonFail == [ok |-> FALSE]
JsonOk(v, rest) == [ok |-> TRUE, value |-> v, rest |-> rest]

RECURSIVE json_value(_)
json_value(ts) ==
    IF ts = <<>> THEN JsonFail
    ELSE IF Head(ts) = NumberToken THEN JsonOk(PyInt(1), Tail(ts))
    ELSE IF Head(ts) = "[" THEN
        IF Len(ts) >= 2 /\ ts[2] = "]" THEN JsonOk(List(<<>>), From(ts, 3))
        ELSE LET e == json_value(Tail(ts)) IN
             IF e.ok /\ e.rest # <<>> /\ Head(e.rest) = "]"
             THEN JsonOk(List(<<e.value>>), Tail(e.rest))
             ELSE JsonFail
    ELSE IF Head(ts) = "{" THEN
        IF Len(ts) >= 2 /\ ts[2] = "}" THEN JsonOk(Dict(<<>>), From(ts, 3))
        ELSE IF Len(ts) >= 2 /\ ts[2] = KeyToken THEN
             LET e == json_value(From(ts, 3)) IN
             IF e.ok /\ e.rest # <<>> /\ Head(e.rest) = "}"
             THEN JsonOk(Dict(<<Item(<<"k">>, e.value)>>), Tail(e.rest))
             ELSE JsonFail
        ELSE JsonFail
    ELSE JsonFail

json_loads(ts) ==
    LET r == json_value(ts) IN
    IF r.ok /\ r.rest = <<>> THEN Ok(r.value) ELSE Raise(JSONDecodeError)

\* the plain fence is a prefix of the json fence: both close a fenced block
ClosesFence(tok) == tok \in {Fence, FenceJson}

\* KPI_analyst.py:31-43.  First the fenced block (lazy: up to the nearest
\* closing fence), then the leftmost bracketed or braced span (greedy: up to
\* the last closer of its kind), then a text that merely starts like JSON.
extract_json_from_text(text) ==
    LET n == Len(text)
        opens == {i \in 1..n : /\ text[i] = FenceJson
                               /\ \E j \in (i + 1)..n : ClosesFence(text[j])}
        starts == {i \in 1..n : \E j \in (i + 1)..n :
                        \/ text[i] = "[" /\ text[j] = "]"
                        \/ text[i] = "{" /\ text[j] = "}"}
    IN  IF opens # {} THEN
            LET i == Min(opens)
                j == Min({c \in (i + 1)..n : ClosesFence(text[c])})
            IN  SubSeq(text, i + 1, j - 1)
        ELSE IF starts # {} THEN
            LET i == Min(starts)
                closer == IF text[i] = "[" THEN "]" ELSE "}"
                j == Max({c \in (i + 1)..n : text[c] = closer})
            IN  SubSeq(text, i, j)
        ELSE IF text # <<>> /\ Head(text) \in {"[", "{"} THEN text
        ELSE <<>>

\* KPI_analyst.py:92-97: only a decode failure is turned into the empty list
get_kpi_list(raw) ==
    LET r == json_loads(extract_json_from_text(raw)) IN
    IF r.raised THEN List(<<>>) ELSE r.value

\* BA.py:95-103: what follows the last json fence, cut at the first fence;
\* any failure gives None
get_chart_spec_from_insight(response) ==
    LET n == Len(response)
        marks == {i \in 1..n : response[i] = FenceJson}
        after == IF marks # {} THEN From(response, Max(marks) + 1) ELSE response
        fences == {i \in 1..Len(after) : after[i] = Fence}
        body == IF fences # {} THEN SubSeq(after, 1, Min(fences) - 1) ELSE after
        r == json_loads(body)
    IN  IF r.raised THEN None ELSE r.value

\* the datasets the pipelines run on
PipelineDatasets == {DataFrame(Columns, <<r>>) : r \in RowVals}

InitPipeline ==
    /\ df \in PipelineDatasets
    /\ df0 = df
    /\ pc = "idle"
    /\ call = NoCall
    /\ ret = NoRet
    /\ session = NoSession

\* run_kpi_analyst, KPI_analyst.py:217-224: no definitions, no calculation
KpiPipeline ==
    /\ pc = "idle"
    /\ \E text \in Texts :
        LET kpi_defs == get_kpi_list(text) IN
        /\ call' = [fn |-> "kpi_pipeline", text |-> text, before |-> df]
        /\ ret' = IF ~Truthy(kpi_defs) THEN Ok(<<>>)
                  ELSE calculate_kpis(df, kpi_defs)
    /\ pc' = "returned"
    /\ UNCHANGED <<df, df0, session>>

\* the insight loop, BA.py:226-234: no specification, no chart
ChartPipeline ==
    /\ pc = "idle"
    /\ \E text \in Texts :
        LET spec == get_chart_spec_from_insight(text)
            r == IF Truthy(spec) THEN generate_chart(df, spec)
                 ELSE [raised |-> FALSE, value |-> None, df |-> df]
        IN  /\ call' = [fn |-> "chart_pipeline", text |-> text, before |-> df]
            /\ ret' = IF r.raised THEN Raise(r.exc) ELSE Ok(r.value)
            /\ df' = r.df
    /\ pc' = "returned"
    /\ UNCHANGED <<df0, session>>

NextPipeline == KpiPipeline \/ ChartPipeline \/ Return
SpecPipeline == InitPipeline /\ [][NextPipeline]_vars

----------------------------------------------------------------------------
(* Column resolution on its own: any reference against any column list *)

TotalSales == <<"T","o","t","a","l"," ","S","a","l","e","s">>

ColumnNames == {Sales, TotalSales, Profit, OrderDate, <<"S","A","L","E","S">>}

ColumnRefs ==
    { ref_sales, Sales, <<"S","a","l","e","s"," ">>, <<"t","o","t","a","l","s","a","l","e","s">>,
      <<"T","O","T","A","L"," ","S","A","L","E","S">>, <<"s">>, <<>>, <<" ">>, ref_cost,
      <<"o","r","d","e","r","d","a","t","e">>, <<" ","p","r","o"," ","f","i","t">>,
      <<"S","a","l","e","s"," ","T","o","t","a","l">> }

CandidateLists == SeqsUpTo(ColumnNames, MaxCands)

InitFuzzy ==
    /\ df = DataFrame(Columns, <<>>)
    /\ df0 = df
    /\ pc = "idle"
    /\ call = NoCall
    /\ ret = NoRet
    /\ session = NoSession

FuzzyMatch ==
    /\ pc = "idle"
    /\ \E col \in ColumnRefs, candidates \in CandidateLists :
        /\ call' = [fn |-> "fuzzy_match", col |-> col, candidates |-> candidates]
        /\ ret' = Ok(fuzzy_match(col, candidates))
    /\ pc' = "returned"
    /\ UNCHANGED <<df, df0, session>>

NextMatch ==
    /\ pc = "idle"
    /\ \E x_col \in ColumnRefs, columns \in CandidateLists :
        /\ call' = [fn |-> "next_match", col |-> x_col, candidates |-> columns]
        /\ ret' = Ok(next_match(x_col, columns))
    /\ pc' = "returned"
    /\ UNCHANGED <<df, df0, session>>

NextFuzzy == FuzzyMatch \/ NextMatch \/ Return
SpecFuzzy == InitFuzzy /\ [][NextFuzzy]_vars

----------------------------------------------------------------------------
(* run_chat, chatbot2.py:42-121: one rerun of the chat page against the     *)
(* session state.  A text is a sequence of words; the model's answer may    *)
(* carry code fences.                                                       *)

MaxTurns == 3

Message(role, text) == [role |-> role, parts |-> <<[text |-> text]>>]
system_message == Message("user", <<"You are a smart business consultant.">>)
first_prompt == Message("user", <<"You're a business consultant.",
                                  "Here is sample business data:">>)

\* what the user may type, and what st.chat_input gives when nothing is typed
UserInputs == {None, Str(<<"hello">>), Str(<<"more", "tips">>)}

\* how the model call ends: with an answer, or with a failure of the request
Answers == { <<"Tip">>, <<Fence, "Sales", "vs", "Profit", Fence>>, <<FenceJson, Fence>> }
Outcomes == {[failed |-> FALSE, text |-> a] : a \in Answers} \cup {[failed |-> TRUE]}

\* raw_dfs: nothing, entries that are no DataFrame, or DataFrames
RawDfs == {"empty", "no frames", "frames"}

\* lines 13-24: the answer, or the error text when the request fails
ask_gemini(outcome) ==
    IF outcome.failed THEN <<"Gemini API error">> ELSE outcome.text

\* line 113: the fences are cut out of the answer
clean_response(raw_response) == SelectSeq(raw_response, LAMBDA tok : ~ClosesFence(tok))

\* lines 46-50: the keys a first run sets
chat_defaults(s) ==
    [keys |-> s.keys \cup {"messages", "used_initial_prompt"},
     messages |-> IF "messages" \in s.keys THEN s.messages ELSE <<>>,
     used_initial_prompt |->
         IF "used_initial_prompt" \in s.keys THEN s.used_initial_prompt ELSE FALSE]

\* run_chat with a slip: a failed model call leaves no assistant message
run_chat_drop_failed_reply(s, raw_dfs, user_input, outcome) ==
    LET s0 == chat_defaults(s) IN
    IF raw_dfs # "frames" \/ ~Truthy(user_input) THEN s0
    ELSE LET asked == Append(s0.messages, Message("user", user_input.s))
             with_system == IF "system_prompt_added" \notin s0.keys
                            THEN <<system_message>> \o asked ELSE asked
             with_first == IF ~s0.used_initial_prompt
                           THEN Append(with_system, first_prompt) ELSE with_system
             response == clean_response(ask_gemini(outcome))
         IN  [keys |-> s0.keys \cup {"system_prompt_added"},
              messages |-> IF outcome.failed THEN with_first
                           ELSE Append(with_first, Message("assistant", response)),
              used_initial_prompt |-> TRUE]

\* lines 42-121: the session state one rerun leaves
run_chat(s, raw_dfs, user_input, outcome) ==
    LET s0 == chat_defaults(s) IN
    IF raw_dfs # "frames" \/ ~Truthy(user_input) THEN s0
    ELSE LET asked == Append(s0.messages, Message("user", user_input.s))
             with_system == IF "system_prompt_added" \notin s0.keys
                            THEN <<system_message>> \o asked ELSE asked
             with_first == IF ~s0.used_initial_prompt
                           THEN Append(with_system, first_prompt) ELSE with_system
             response == clean_response(ask_gemini(outcome))
         IN  [keys |-> s0.keys \cup {"system_prompt_added"},
              messages |-> Append(with_first, Message("assistant", response)),
              used_initial_prompt |-> TRUE]

\* the turns with user input the history holds
Turns(s) == Cardinality({i \in DOMAIN s.messages : s.messages[i].role = "assistant"})

InitChat ==
    /\ df = DataFrame(Columns, <<>>)
    /\ df0 = df
    /\ pc = "idle"
    /\ call = NoCall
    /\ ret = NoRet
    /\ session = NoSession

\* one rerun of the page
RunChat ==
    /\ pc = "idle"
    /\ \E raw_dfs \in RawDfs, user_input \in UserInputs, outcome \in Outcomes :
        /\ Truthy(user_input) => Turns(session) < MaxTurns
        /\ call' = [fn |-> "run_chat", raw_dfs |-> raw_dfs, user_input |-> user_input,
                     outcome |-> outcome, before |-> session]
        /\ session' = run_chat(session, raw_dfs, user_input, outcome)
    /\ ret' = Ok(None)
    /\ pc' = "returned"
    /\ UNCHANGED <<df, df0>>

NextChat == RunChat \/ Return
SpecChat == InitChat /\ [][NextChat]_vars

----------------------------------------------------------------------------
(* What the claims speak about, read off a finished calculate_kpis call *)

KpiCall == pc = "returned" /\ call.fn = "calculate_kpis"
KpiListCall == KpiCall /\ call.kpi_definitions.k = "list"
Entries == call.kpi_definitions.xs

\* the entries of a call that returned which are KPI definitions (mappings)
Resolved == IF KpiListCall /\ ~ret.raised
            THEN {i \in DOMAIN Entries : IsDict(Entries[i])} ELSE {}

ValueOf(i) == DictGet(ret.value[i], "value")
HasError(i) == DictHas(ret.value[i], "error")
ErrorOf(i) == DictGet(ret.value[i], "error")
Failed(i) == ValueOf(i) = FailureMarker /\ HasError(i)

NoColumn(ref) == ~Truthy(fuzzy_match(ref, df.columns))

FilterOf(kpi) == IF DictHas(kpi, "filter") THEN DictGet(kpi, "filter") ELSE None
\* the filter names a column by a string
HasFilterRef(kpi) ==
    /\ IsDict(FilterOf(kpi)) /\ Truthy(FilterOf(kpi))
    /\ DictHas(FilterOf(kpi), "column") /\ IsStr(DictGet(FilterOf(kpi), "column"))
FilterRef(kpi) == DictGet(FilterOf(kpi), "column")

MapItems(kpi) ==
    IF DictHas(kpi, "aggregation_map") /\ IsDict(DictGet(kpi, "aggregation_map"))
    THEN DictGet(kpi, "aggregation_map").items ELSE <<>>

\* one aggregation_map entry evaluated by itself over the rows the filter left
EntryAlone(kpi, j) ==
    LET item == MapItems(kpi)[j]
        col == fuzzy_match(item.key, df.columns)
    IN  IF ~Truthy(col) THEN Raise(ValueError("Column not found", Str(item.key)))
        ELSE aggregate(Series(kpi_filter(df, kpi).value, col.s), item.val)

FilterOk(kpi) == ~kpi_filter(df, kpi).raised
EntriesBeforeOk(kpi, j) == \A h \in 1..(j - 1) : ~EntryAlone(kpi, h).raised

SupportedKinds == {Str(SUM), Str(COUNT), Str(COUNT_DISTINCT), Str(AVERAGE)}

----------------------------------------------------------------------------
\* C1: calculate_kpis never raises and returns one record per definition in
\* input order; an entry whose resolution fails for any reason (an entry that
\* is no mapping included) carries the failure marker, and every entry carries
\* the value it gets when resolved alone.
C1_NeverRaisesOneRecordEach ==
    KpiListCall =>
        /\ ~ret.raised
        /\ Len(ret.value) = Len(Entries)
        /\ \A i \in DOMAIN Entries :
              LET alone == calculate_kpis(df, List(<<Entries[i]>>)) IN
              /\ ~alone.raised
              /\ ValueOf(i) = DictGet(alone.value[1], "value")
              /\ kpi_try(df, Entries[i]).raised => ValueOf(i) = FailureMarker

\* C2: when an aggregation_map entry fails, the KPI carries the failure marker
\* and the message of that failure, never a number made of the other entries.
C2_EntryFailureAbortsKpi ==
    \A i \in Resolved :
        \A j \in DOMAIN MapItems(Entries[i]) :
            (FilterOk(Entries[i]) /\ EntriesBeforeOk(Entries[i], j)
                /\ EntryAlone(Entries[i], j).raised)
            => /\ Failed(i)
               /\ ErrorOf(i) = str_exc(EntryAlone(Entries[i], j).exc)

\* C2 happens: the first entry evaluates, the second fails, the KPI is aborted
C2_Witness ==
    \E i \in Resolved :
        /\ Len(MapItems(Entries[i])) = 2
        /\ FilterOk(Entries[i])
        /\ ~EntryAlone(Entries[i], 1).raised
        /\ EntryAlone(Entries[i], 2).raised
        /\ DictHas(Entries[i], "operation")
        /\ Failed(i)

----------------------------------------------------------------------------
\* the definitions whose operation is DIVIDE or RATIO in any letter case and
\* whose aggregation_map has two entries or more that all evaluate
IsRatioDef(kpi) ==
    /\ DictHas(kpi, "operation") /\ IsStr(DictGet(kpi, "operation"))
    /\ upper(DictGet(kpi, "operation").s) \in {DIVIDE, RATIO}
    /\ FilterOk(kpi)
    /\ Len(MapItems(kpi)) >= 2
    /\ \A j \in DOMAIN MapItems(kpi) : ~EntryAlone(kpi, j).raised

FirstValue(kpi) == EntryAlone(kpi, 1).value
SecondValue(kpi) == EntryAlone(kpi, 2).value

----------------------------------------------------------------------------
FilterUnresolved(kpi) == HasFilterRef(kpi) /\ NoColumn(FilterRef(kpi).s)
UnresolvedEntries(kpi) == {j \in DOMAIN MapItems(kpi) : NoColumn(MapItems(kpi)[j].key)}

FilterNotFound(kpi) == str_exc(ValueError("Filter column not found", FilterRef(kpi)))
ColumnNotFound(ref) == str_exc(ValueError("Column not found", Str(ref)))

\* C9 as stated: a KPI whose filter reference or any aggregation_map reference
\* matches no column fails with a column-not-found error naming a reference,
\* the filter's when the filter reference is unresolved.
C9_UnresolvedIsColumnNotFound ==
    \A i \in Resolved :
        LET kpi == Entries[i] IN
        (FilterUnresolved(kpi) \/ UnresolvedEntries(kpi) # {}) =>
            /\ Failed(i)
            /\ IF FilterUnresolved(kpi) THEN ErrorOf(i) = FilterNotFound(kpi)
               ELSE \E j \in UnresolvedEntries(kpi) :
                        ErrorOf(i) = ColumnNotFound(MapItems(kpi)[j].key)

\* C9 amended: such a KPI always fails (failure marker plus error).  The error
\* is the filter's column-not-found error when the filter reference is
\* unresolved; otherwise it is the column-not-found error naming the first
\* unresolved aggregation reference, provided the filter step and every entry
\* before that reference succeed.
C9_UnresolvedFails ==
    \A i \in Resolved :
        LET kpi == Entries[i] IN
        /\ FilterUnresolved(kpi) => Failed(i) /\ ErrorOf(i) = FilterNotFound(kpi)
        /\ \A j \in UnresolvedEntries(kpi) :
              /\ Failed(i)
              /\ (FilterOk(kpi) /\ EntriesBeforeOk(kpi, j))
                    => ErrorOf(i) = ColumnNotFound(MapItems(kpi)[j].key)

\* C9 happens: filter and aggregation references are both unresolved and the
\* error reported is the filter's
C9_Witness ==
    \E i \in Resolved :
        /\ FilterUnresolved(Entries[i])
        /\ UnresolvedEntries(Entries[i]) # {}
        /\ ErrorOf(i) = FilterNotFound(Entries[i])

----------------------------------------------------------------------------
UnsupportedEntries(kpi) ==
    {j \in DOMAIN MapItems(kpi) : MapItems(kpi)[j].val \notin SupportedKinds}

UnsupportedAggregation(kind) == str_exc(ValueError("Unsupported aggregation", kind))

\* C10 as stated: a KPI with an aggregation kind other than SUM, COUNT,
\* COUNT_DISTINCT, AVERAGE gets the failure marker with an
\* unsupported-aggregation error.
C10_UnsupportedKindIsThatError ==
    \A i \in Resolved :
        LET kpi == Entries[i] IN
        UnsupportedEntries(kpi) # {} =>
            /\ Failed(i)
            /\ \E j \in UnsupportedEntries(kpi) :
                  ErrorOf(i) = UnsupportedAggregation(MapItems(kpi)[j].val)

\* C10 amended: such a KPI always gets the failure marker and an error, never
\* a value; the error is the unsupported-aggregation error naming the first
\* such kind, provided the filter step and every earlier entry succeed and the
\* entry's own column reference resolves.
C10_UnsupportedKindFails ==
    \A i \in Resolved :
        LET kpi == Entries[i] IN
        \A j \in UnsupportedEntries(kpi) :
            /\ Failed(i)
            /\ (FilterOk(kpi) /\ EntriesBeforeOk(kpi, j)
                    /\ ~NoColumn(MapItems(kpi)[j].key))
                  => ErrorOf(i) = UnsupportedAggregation(MapItems(kpi)[j].val)

\* C10 happens: a supported entry is followed by an unsupported kind on a
\* column that exists, and the KPI fails with the unsupported-aggregation error
C10_Witness ==
    \E i \in Resolved :
        LET kpi == Entries[i] IN
        /\ Len(MapItems(kpi)) = 2
        /\ UnsupportedEntries(kpi) = {2}
        /\ ~NoColumn(MapItems(kpi)[2].key)
        /\ DictHas(kpi, "operation")
        /\ ErrorOf(i) = UnsupportedAggregation(MapItems(kpi)[2].val)
        /\ ValueOf(i) = FailureMarker

----------------------------------------------------------------------------
MatchCall == pc = "returned" /\ call.fn \in {"fuzzy_match", "next_match"}

\* the candidates whose lower-cased, space-stripped name contains the
\* lower-cased, space-stripped reference
Hits == {i \in DOMAIN call.candidates :
            Contains(normalize(call.candidates[i]), normalize(call.col))}
FirstHit == CHOOSE i \in Hits : \A j \in Hits : i <= j

\* C5: the result is the first candidate, in the given order, whose normalised
\* name contains the normalised reference, and not-found exactly when there is
\* none; it is always one of the candidates, and an earlier substring match
\* wins over a later exact one.
C5_FirstContainingCandidate ==
    MatchCall =>
        IF Hits = {} THEN ret.value = None
        ELSE ret.value = Str(call.candidates[FirstHit])

\* C5 happens: the first candidate only contains the reference, a later one
\* equals it after normalising, and the first is returned
C5_Witness ==
    /\ MatchCall
    /\ call.fn = "fuzzy_match"
    /\ Len(call.candidates) >= 2
    /\ normalize(call.candidates[1]) # normalize(call.col)
    /\ normalize(call.candidates[2]) = normalize(call.col)
    /\ call.candidates[1] # call.candidates[2]
    /\ call.col # call.candidates[2]
    /\ ret.value = Str(call.candidates[1])

----------------------------------------------------------------------------
ChartCall == pc = "returned" /\ call.fn = "generate_chart"

\* C3: no call of calculate_kpis or generate_chart changes the caller's
\* dataset: when the call has ended, whether it succeeded or failed, the
\* dataset has the columns and the row values it had before the call.
C3_CallerDatasetUnchanged ==
    (KpiCall \/ ChartCall) => df = call.before

\* what the host sees of a chart call: a figure or the build failure
Outcome(v) == v.k

\* C4: the outcome of every call (figure or build failure, the KPI values or
\* failure markers) is the outcome the same call has as the only call ever
\* made on the dataset as it was loaded.
C4_OutcomeAsIfOnlyCall ==
    /\ ChartCall =>
          /\ ~ret.raised
          /\ Outcome(ret.value) = Outcome(generate_chart(df0, call.spec).value)
    /\ KpiCall => ret = calculate_kpis(df0, call.kpi_definitions)

\* C7: generate_chart never lets an exception reach its caller; it returns a
\* figure or the build-failure result for every specification and dataset.
C7_ChartNeverRaises ==
    ChartCall => ~ret.raised /\ Outcome(ret.value) \in {"figure", "None"}

\* C7 happens: a derived y with more than one '/' fails inside the try block
\* and the call returns the build failure
C7_Witness ==
    /\ ChartCall
    /\ IsDict(call.spec)
    /\ ~chart_unpack(call.spec).raised
    /\ IsStr(DictGet(call.spec, "y"))
    /\ Len(split(DictGet(call.spec, "y").s, "/")) > 2
    /\ chart_try(call.before, call.spec).raised
    /\ ~ret.raised
    /\ ret.value = None

----------------------------------------------------------------------------
KpiPipelineEnd == pc = "returned" /\ call.fn = "kpi_pipeline"
ChartPipelineEnd == pc = "returned" /\ call.fn = "chart_pipeline"

\* a record of the result carries the failure marker
Flagged(rec) == IsDict(rec) /\ DictHas(rec, "value") /\ DictGet(rec, "value") = FailureMarker

\* C8: for every text of the text-generation service the KPI pipeline ends
\* with an empty or failure-flagged result, the chart pipeline ends with no
\* figure, and neither pipeline raises.
C8_PipelinesNeverCrash ==
    /\ KpiPipelineEnd =>
          /\ ~ret.raised
          /\ \A i \in DOMAIN ret.value : Flagged(ret.value[i])
    /\ ChartPipelineEnd =>
          /\ ~ret.raised
          /\ ret.value = None

----------------------------------------------------------------------------
\* the bar chart of Profit by Region under the title 'Average profit by Region'
RegionExample ==
    Dict(Field("chart_type", Str(bar)) \o Field("x", Str(Region))
            \o Field("y", Str(Profit))
            \o Field("title", Str(<<"A","v","e","r","a","g","e"," ","p","r","o","f","i","t",
                                    " ","b","y"," ","R","e","g","i","o","n">>)))

\* every region of the dataset has two rows, each with a Profit
TwoRowsPerRegion(d) ==
    /\ d.rows # <<>>
    /\ \A i \in DOMAIN d.rows :
          /\ Series(d, Profit)[i] # NaN
          /\ Cardinality({j \in DOMAIN d.rows : Series(d, Region)[j] = Series(d, Region)[i]}) = 2

\* C11: for the chart specification {bar, x Region, y Profit, title 'Average
\* profit by Region'} and a dataset with two rows per region, generate_chart
\* returns a figure whose table has one row per region, Profit summed per
\* region, sorted by Region ascending.
C11_RegionExampleGroupsAndSums ==
    (ChartCall /\ call.spec = RegionExample /\ TwoRowsPerRegion(call.before)) =>
        /\ Outcome(ret.value) = "figure"
        /\ ret.value.table
             = sort_values(groupby_sum(call.before, <<Region>>, Profit), Region)

----------------------------------------------------------------------------
\* the y of a finished chart call, and its two operands when it is 'A/B'
ChartY == DictGet(call.spec, "y")
IsRatioCall ==
    /\ ChartCall
    /\ IsDict(call.spec)
    /\ ~chart_unpack(call.spec).raised
    /\ IsStr(ChartY)
    /\ Len(split(ChartY.s, "/")) = 2
OperandA == strip(split(ChartY.s, "/")[1])
OperandB == strip(split(ChartY.s, "/")[2])
OperandMissing ==
    /\ IsRatioCall
    /\ ~HasColumn(call.before, OperandA) \/ ~HasColumn(call.before, OperandB)

\* C12: a derived ratio y = 'A/B' whose A or B is no column of the dataset
\* (exact name) makes generate_chart return the build failure, and no derived
\* column is added: the dataset is as it was before the call.
C12_MissingOperandFails ==
    OperandMissing =>
        /\ ~ret.raised
        /\ ret.value = None
        /\ df = call.before
        /\ ~HasColumn(df, ChartY.s)

\* C12 happens: the numerator is a column, the denominator is not, and x is
\* a column, so that only the missing operand stands against a figure
C12_Witness ==
    /\ OperandMissing
    /\ HasColumn(call.before, OperandA)
    /\ ~HasColumn(call.before, OperandB)
    /\ IsStr(DictGet(call.spec, "x"))
    /\ HasColumn(call.before, DictGet(call.spec, "x").s)
    /\ call.before.rows # <<>>
    /\ ret.value = None
    /\ df = call.before

----------------------------------------------------------------------------
\* the chart type of a finished chart call as generate_chart reads it, and
\* the path its y takes
ChartType == chart_unpack(call.spec).value.chart_type
IsMultiSeries == ChartY.k = "list"
MultiSeriesTypes == {line, bar, scatter}
SingleSeriesTypes == {bar, line, scatter, pie}

\* C13: generate_chart returns a figure only for a supported chart type: with
\* y a sequence only for line, bar or scatter (not for pie), with y a single
\* column only for bar, line, scatter or pie; every other type gives the
\* build failure.
C13_FigureOnlyForSupportedType ==
    ChartCall =>
        /\ Outcome(ret.value) = "figure" =>
              /\ IsDict(call.spec)
              /\ ~chart_unpack(call.spec).raised
              /\ IF IsMultiSeries THEN ChartType \in MultiSeriesTypes
                                  ELSE ChartType \in SingleSeriesTypes
              /\ ret.value.chart_type = ChartType
        /\ (/\ IsDict(call.spec)
            /\ ~chart_unpack(call.spec).raised
            /\ ChartType \notin (IF IsMultiSeries THEN MultiSeriesTypes ELSE SingleSeriesTypes))
              => ~ret.raised /\ ret.value = None

\* C13 happens: a pie over two series whose columns all exist, on a dataset
\* with rows, ends in the build failure
C13_Witness ==
    /\ ChartCall
    /\ IsDict(call.spec)
    /\ ~chart_unpack(call.spec).raised
    /\ IsMultiSeries
    /\ ChartType = pie
    /\ IsStr(DictGet(call.spec, "x"))
    /\ HasColumn(call.before, DictGet(call.spec, "x").s)
    /\ \A i \in DOMAIN ChartY.xs : IsStr(ChartY.xs[i]) /\ HasColumn(call.before, ChartY.xs[i].s)
    /\ ~chart_try(call.before, call.spec).raised
    /\ call.before.rows # <<>>
    /\ ret.value = None

----------------------------------------------------------------------------
\* entry i of a finished call is a KPI whose filter names a column of the
\* dataset and carries a value
FilterValue(kpi) == DictGet(FilterOf(kpi), "value")
FilterApplies(i) ==
    /\ i \in Resolved
    /\ HasFilterRef(Entries[i])
    /\ DictHas(FilterOf(Entries[i]), "value")
    /\ ~NoColumn(FilterRef(Entries[i]).s)
FilterColumn(kpi) == fuzzy_match(FilterRef(kpi).s, df.columns).s
FilterCell(kpi, row) == row[ColIndex(df, FilterColumn(kpi))]

\* the dataset cut down to the rows whose filter cell is the filter value, and
\* to the rows whose filter cell reads as the filter value does
RowsEqual(kpi) ==
    DataFrame(df.columns,
              SelectSeq(df.rows, LAMBDA row : /\ FilterCell(kpi, row) # NaN
                                               /\ FilterCell(kpi, row) = FilterValue(kpi)))
RowsEqualAsText(kpi) ==
    DataFrame(df.columns,
              SelectSeq(df.rows, LAMBDA row : /\ FilterCell(kpi, row) # NaN
                                               /\ py_str(FilterCell(kpi, row))
                                                    = py_str(FilterValue(kpi))))

\* the same KPI without its filter, computed over the rows given
WithoutFilter(kpi) == Dict(SelectSeq(kpi.items, LAMBDA it : it.key # "filter"))
OverRows(d, kpi) == kpi_step(d, WithoutFilter(kpi)).value
SameOutcome(rec, other) ==
    /\ DictGet(rec, "value") = DictGet(other, "value")
    /\ DictHas(rec, "error") <=> DictHas(other, "error")
    /\ DictHas(rec, "error") => DictGet(rec, "error") = DictGet(other, "error")

\* C14 as stated: the rows kept are those whose filter cell equals the filter
\* value when both are compared as text (value '1' keeps the rows storing the
\* number 1), and every aggregation of the KPI runs over exactly those rows.
C14_FilterComparesText ==
    \A i \in Resolved :
        FilterApplies(i) =>
            SameOutcome(ret.value[i], OverRows(RowsEqualAsText(Entries[i]), Entries[i]))

\* C14: the rows kept are those whose filter cell equals the filter value as
\* stored, with no conversion to text (the number 1 keeps the rows storing 1,
\* the text '1' keeps no row of a numeric column, a null cell is never kept),
\* and every aggregation of the KPI runs over exactly those rows.
C14_FilterComparesValues ==
    \A i \in Resolved :
        FilterApplies(i) =>
            SameOutcome(ret.value[i], OverRows(RowsEqual(Entries[i]), Entries[i]))

\* C14 happens: a two-entry KPI filtered on a number keeps one row of two and
\* gets a numeric value
C14_Witness ==
    /\ KpiListCall /\ ~ret.raised
    /\ \E i \in Resolved :
        /\ FilterApplies(i)
        /\ IsNum(FilterValue(Entries[i]))
        /\ Len(MapItems(Entries[i])) = 2
        /\ Len(df.rows) = 2
        /\ Len(RowsEqual(Entries[i]).rows) = 1
        /\ IsNum(ValueOf(i))

----------------------------------------------------------------------------
BenchCall == pc = "returned" /\ call.fn = "get_mock_benchmarks"
BenchValue(i) == DictGet(call.kpis[i], "value")
Benchmark(i) == DictGet(ret.value[i], "benchmark")

\* a value Python holds as a number: a finite number, an infinity or nan
IsNumeric(v) == IsNum(v) \/ v = NaN

\* b is v * 1.1 rounded to 2 decimals: a multiple of 1/100 at most 1/200 away
\* from the product (for an infinity or nan, the product itself)
IsProductRounded(b, v) ==
    LET w == Mul(v, Num(11, 10)) IN
    IF ~IsFinite(w) THEN b = w
    ELSE /\ IsFinite(b)
         /\ 100 % b.d = 0
         /\ 200 * Abs(b.n * w.d - w.n * b.d) <= b.d * w.d

----------------------------------------------------------------------------
\* the operations calculate_kpis knows, and the operation of a KPI when it is
\* a string
SupportedOperations == {SUM, AVERAGE, COUNT, COUNT_DISTINCT, DIVIDE, RATIO, MULTIPLY}
HasOperation(kpi) == DictHas(kpi, "operation") /\ IsStr(DictGet(kpi, "operation"))
OperationOf(kpi) == upper(DictGet(kpi, "operation").s)
UnsupportedOperation(op) == str_exc(ValueError("Unsupported operation", Str(op)))

HasMap(kpi) == DictHas(kpi, "aggregation_map") /\ IsDict(DictGet(kpi, "aggregation_map"))
AllEntriesOk(kpi) ==
    /\ HasMap(kpi)
    /\ FilterOk(kpi)
    /\ \A j \in DOMAIN MapItems(kpi) : ~EntryAlone(kpi, j).raised

\* C16: a KPI whose operation, upper-cased, is none of SUM, AVERAGE, COUNT,
\* COUNT_DISTINCT, DIVIDE, RATIO, MULTIPLY never gets a number: it gets the
\* failure marker and an error, and when its filter and every
\* aggregation_map entry evaluate, the error is the unsupported-operation error.
C16_UnknownOperationFails ==
    \A i \in Resolved :
        (HasOperation(Entries[i]) /\ OperationOf(Entries[i]) \notin SupportedOperations) =>
            /\ Failed(i)
            /\ AllEntriesOk(Entries[i]) =>
                  ErrorOf(i) = UnsupportedOperation(OperationOf(Entries[i]))

\* C16 happens: MEDIAN over an aggregation_map whose entries all evaluate, on
\* a dataset with rows
C16_Witness ==
    /\ KpiListCall /\ ~ret.raised
    /\ df.rows # <<>>
    /\ \E i \in Resolved :
        /\ HasOperation(Entries[i])
        /\ OperationOf(Entries[i]) \notin SupportedOperations
        /\ AllEntriesOk(Entries[i])
        /\ MapItems(Entries[i]) # <<>>
        /\ Failed(i)
        /\ ErrorOf(i) = UnsupportedOperation(OperationOf(Entries[i]))

----------------------------------------------------------------------------
\* how many aggregates an operation consumes
Arity(op) == IF op \in {SUM, AVERAGE, COUNT, COUNT_DISTINCT} THEN 1 ELSE 2
HasSupportedOperation(kpi) ==
    HasOperation(kpi) /\ OperationOf(kpi) \in SupportedOperations

\* the KPI with its aggregation_map cut to the entries its operation consumes
Consumed(kpi) ==
    DictSet(kpi, "aggregation_map",
            Dict(SubSeq(MapItems(kpi), 1, Arity(OperationOf(kpi)))))

Succeeded(i) == ~HasError(i) /\ ValueOf(i) # FailureMarker

\* C17: a KPI whose aggregation_map has fewer entries than its operation
\* consumes (none for SUM, AVERAGE, COUNT, COUNT_DISTINCT; fewer than two for
\* DIVIDE, RATIO, MULTIPLY) gets the failure marker and an error, never a
\* number, and the batch goes on to a record for every entry; a KPI that
\* succeeds has the value its consumed entries alone give it.
C17_ArityOfTheOperation ==
    \A i \in Resolved :
        HasSupportedOperation(Entries[i]) =>
            /\ Len(MapItems(Entries[i])) < Arity(OperationOf(Entries[i])) =>
                  /\ Failed(i)
                  /\ Len(ret.value) = Len(Entries)
            /\ (Succeeded(i) /\ HasMap(Entries[i])) =>
                  /\ Len(MapItems(Entries[i])) >= Arity(OperationOf(Entries[i]))
                  /\ ValueOf(i) = DictGet(kpi_step(df, Consumed(Entries[i])).value, "value")

\* C17 happens: in one batch a RATIO over a single aggregate that evaluates
\* fails, and the entry after it gets a number
C17_Witness ==
    /\ KpiListCall /\ ~ret.raised
    /\ df.rows # <<>>
    /\ \E i \in Resolved :
        /\ HasOperation(Entries[i])
        /\ OperationOf(Entries[i]) = RATIO
        /\ Len(MapItems(Entries[i])) = 1
        /\ AllEntriesOk(Entries[i])
        /\ Failed(i)
        /\ i + 1 \in Resolved
        /\ IsNum(ValueOf(i + 1))

----------------------------------------------------------------------------
ChatCall == pc = "returned" /\ call.fn = "run_chat"
History == session.messages
\* a rerun in which the user typed something and the page had data
IsTurn == ChatCall /\ call.raw_dfs = "frames" /\ Truthy(call.user_input)
HistoryBefore == chat_defaults(call.before).messages

\* the shape of a history: empty, or the system prompt, the first user
\* message, the initial data prompt and the first answer, and after them user
\* messages and answers in turn
HasShape(m) ==
    \/ m = <<>>
    \/ /\ Len(m) >= 4
       /\ Len(m) % 2 = 0
       /\ m[1] = system_message
       /\ m[2].role = "user"
       /\ m[3] = first_prompt
       /\ m[4].role = "assistant"
       /\ \A i \in 5..Len(m) : m[i].role = (IF i % 2 = 1 THEN "user" ELSE "assistant")
       /\ Cardinality({i \in DOMAIN m : m[i] = system_message}) = 1
       /\ Cardinality({i \in DOMAIN m : m[i] = first_prompt}) = 1

\* C18: over any sequence of run_chat reruns on one session state the chat
\* history keeps its shape: the system prompt is inserted once and stays at
\* index 0, the initial data prompt is appended once, on the first turn with
\* user input and after that turn's user message, and every turn with user
\* input appends one user message and after it one assistant message, also
\* when the model call fails; a rerun without user input appends nothing.
C18_HistoryShape ==
    /\ HasShape(History)
    /\ IsTurn =>
          LET asked == Message("user", call.user_input.s)
              answered == History[Len(History)]
          IN  /\ answered.role = "assistant"
              /\ IF HistoryBefore = <<>>
                 THEN History = <<system_message, asked, first_prompt, answered>>
                 ELSE History = HistoryBefore \o <<asked, answered>>
    /\ (ChatCall /\ ~IsTurn) => History = HistoryBefore

\* C18 happens: a later turn whose model call fails still leaves a user
\* message and an assistant message behind the earlier turns
C18_Witness ==
    /\ IsTurn
    /\ call.outcome.failed
    /\ Len(HistoryBefore) >= 4
    /\ Len(History) = Len(HistoryBefore) + 2
    /\ History[Len(History)].role = "assistant"
    /\ History[Len(History) - 1] = Message("user", call.user_input.s)
    /\ History[1] = system_message

====
